---- MODULE Spec2Model ----
(***************************************************************************)
(* hades-signaling: the peer registry, the peer selection and the          *)
(* signaling relay of src/src/types.ts (redis.ts and routes/signaling.ts)  *)
(* and the scorer of src/unnamed/part_002 (services/peer-scoring.ts), as a *)
(* state machine over the Redis keyspace.                                  *)
(*                                                                         *)
(* Strings that take part in key formatting, pattern matching or splitting *)
(* are sequences of one-character strings, so that PEER_KEY, the signal    *)
(* key, redis.keys(pattern) and split(':') are computed as the code        *)
(* computes them.  One step of a handler is one Redis command together     *)
(* with the synchronous code that follows it up to the next await.         *)
(***************************************************************************)
EXTENDS Integers, Sequences, FiniteSets, TLC

VARIABLES
    now,      \* Date.now(), in milliseconds
    kv,       \* Redis string keys: key -> [val, exp]
    sets,     \* Redis set keys: key -> [val, exp], val the set of members
    faults,   \* number of Redis commands that have thrown so far
    nreq,     \* number of registry requests and sweeps that have reached the store
    req,      \* the POST /announce, /peers and /complete requests in flight
    sweep,    \* the run of cleanupExpiredPeers in progress
    out,      \* the response sent in the last step (none for a registry request rejected with 400)
    nsig,     \* number of signals accepted so far
    nto,      \* per recipient, the number of signals accepted so far (kept for the properties)
    poll      \* the GET /signals/:clientId requests

vars == <<now, kv, sets, faults, nreq, req, sweep, out, nsig, nto, poll>>
relayVars == <<nsig, nto, poll>>

-----------------------------------------------------------------------------
(* Bounds of the model *)

MaxMs == 1         \* the clock visits the milliseconds 0..MaxMs
MaxEpochs == 1     \* ... and the ends of the first MaxEpochs signal-TTL windows
MaxSignals == 2    \* signals accepted in one behaviour
MaxPolls == 2      \* poll requests in one behaviour
MaxFaults == 1     \* Redis commands that throw in one behaviour
MaxSlots == 2      \* registry requests in flight at a time
MaxRequests == 3   \* registry requests and sweeps in one behaviour
MaxTicks == 2      \* the registry clock visits 0..MaxTicks half presence TTLs

(* Program constants *)

SIGNAL_TTL == 30           \* redis.setex(signalKey, 30, signal)
PEER_TTL == 300            \* process.env.PEER_TTL || '300'
MAX_PEERS_RESPONSE == 6    \* process.env.MAX_PEERS_RESPONSE || '6'

-----------------------------------------------------------------------------
(* Strings *)

COLON == ":"
EMPTY == << >>     \* the empty string, and a missing (undefined) string field
NULL == [null |-> TRUE]   \* the reply of GET for a missing key

DigitChar(d) == <<"0", "1", "2", "3", "4", "5", "6", "7", "8", "9">>[d + 1]

\* `${n}` for a non-negative integer n
RECURSIVE Digits(_)
Digits(n) ==
    IF n < 10 THEN <<DigitChar(n)>>
    ELSE Digits(n \div 10) \o <<DigitChar(n % 10)>>

\* Redis glob matching (stringmatchlen) for the pattern characters that the
\* identifiers of this model can contain: '*' and '?'.
RECURSIVE GlobMatch(_, _)
GlobMatch(p, s) ==
    IF p = << >> THEN s = << >>
    ELSE IF Head(p) = "*"
         THEN GlobMatch(Tail(p), s) \/ (s # << >> /\ GlobMatch(p, Tail(s)))
    ELSE IF s = << >> THEN FALSE
    ELSE IF Head(p) = "?" THEN GlobMatch(Tail(p), Tail(s))
    ELSE Head(p) = Head(s) /\ GlobMatch(Tail(p), Tail(s))

-----------------------------------------------------------------------------
(* The Redis commands the handlers use *)

\* a key exists until it is deleted or it expires
Live(store, k) == k \in DOMAIN store

\* Redis deletes the keys whose expiry has come: the keys that are left at time t
Purge(store, t) ==
    [k \in {x \in DOMAIN store : store[x].exp = -1 \/ store[x].exp > t} |-> store[k]]

\* SETEX key seconds value
Setex(store, k, seconds, v) ==
    [x \in DOMAIN store \cup {k} |->
        IF x = k THEN [val |-> v, exp |-> now + seconds * 1000] ELSE store[x]]

\* GET key
Get(store, k) == IF Live(store, k) THEN store[k].val ELSE NULL

\* (mutant) a DEL that removes nothing
DelNothing(store, k) == store

\* DEL key
Del(store, k) == [x \in DOMAIN store \ {k} |-> store[x]]

\* KEYS pattern, over the string keys
Keys(store, pattern) == {k \in DOMAIN store : Live(store, k) /\ GlobMatch(pattern, k)}

\* EXISTS key
Exists(store, k) == Live(store, k)

\* SADD key member: a set that does not exist is created, with no expiry
Sadd(store, k, x) ==
    [y \in DOMAIN store \cup {k} |->
        IF y # k THEN store[y]
        ELSE IF Live(store, k) THEN [store[k] EXCEPT !.val = @ \cup {x}]
        ELSE [val |-> {x}, exp |-> -1]]

\* (mutant) an SREM that removes nothing
SremNothing(store, k, x) == store

\* SREM key member: a set left empty is deleted
Srem(store, k, x) ==
    IF ~Live(store, k) THEN store
    ELSE IF store[k].val \ {x} = {} THEN Del(store, k)
    ELSE [store EXCEPT ![k].val = @ \ {x}]

\* SMEMBERS key
Smembers(store, k) == IF Live(store, k) THEN store[k].val ELSE {}

\* TTL key, in seconds: -2 for a key that does not exist, -1 for one without expiry
Ttl(store, k) ==
    IF ~Live(store, k) THEN -2
    ELSE IF store[k].exp = -1 THEN -1
    ELSE (store[k].exp - now + 500) \div 1000

\* EXPIRE key seconds: nothing for a key that does not exist
Expire(store, k, seconds) ==
    IF Live(store, k) THEN [store EXCEPT ![k].exp = now + seconds * 1000] ELSE store

\* the orders in which a reply can list the members of a set
Orders(S) == {f \in [1..Cardinality(S) -> S] : \A i, j \in 1..Cardinality(S) : f[i] = f[j] => i = j}

-----------------------------------------------------------------------------
(* services/peer-scoring.ts *)

MIB == 1024 * 1024     \* a score is kept as score * MIB, which is an integer

NoRtt == 0 - 1         \* rttHint undefined

\* (mutant) a minimum that clamps nothing
MinOfOne(a, b) == a

Min(a, b) == IF a < b THEN a ELSE b

RECURSIVE Pow2(_)
Pow2(n) == IF n = 0 THEN 1 ELSE 2 * Pow2(n - 1)

HexChars ==
    <<"0", "1", "2", "3", "4", "5", "6", "7", "8", "9", "a", "b", "c", "d", "e", "f">>
HexUpper ==
    <<"0", "1", "2", "3", "4", "5", "6", "7", "8", "9", "A", "B", "C", "D", "E", "F">>

\* the value of a hex digit, -1 for any other character
HexVal(c) ==
    IF \E i \in 1..16 : HexChars[i] = c \/ HexUpper[i] = c
    THEN (CHOOSE i \in 1..16 : HexChars[i] = c \/ HexUpper[i] = c) - 1
    ELSE 0 - 1

\* Buffer.from(bitfield, 'hex'): two digits a byte, up to the first pair that
\* is not two hex digits; a last odd digit is dropped
RECURSIVE HexDecode(_)
HexDecode(h) ==
    IF Len(h) < 2 THEN << >>
    ELSE IF HexVal(h[1]) < 0 \/ HexVal(h[2]) < 0 THEN << >>
    ELSE <<16 * HexVal(h[1]) + HexVal(h[2])>> \o HexDecode(SubSeq(h, 3, Len(h)))

\* (mutant) a bit test that counts from the most significant bit
hasNeededChunksMsb(bitfield, neededChunks) ==
    IF bitfield = EMPTY \/ Len(neededChunks) = 0 THEN FALSE
    ELSE LET bytes == HexDecode(bitfield)
         IN \E i \in 1..Len(neededChunks) :
                LET byteIndex == neededChunks[i] \div 8
                    bitIndex == neededChunks[i] % 8
                IN /\ byteIndex >= 0
                   /\ byteIndex < Len(bytes)
                   /\ (bytes[byteIndex + 1] \div Pow2(7 - bitIndex)) % 2 = 1

hasNeededChunks(bitfield, neededChunks) ==
    IF bitfield = EMPTY \/ Len(neededChunks) = 0 THEN FALSE
    ELSE LET bytes == HexDecode(bitfield)
         IN \E i \in 1..Len(neededChunks) :
                LET byteIndex == neededChunks[i] \div 8
                    bitIndex == neededChunks[i] % 8
                IN /\ byteIndex >= 0
                   /\ byteIndex < Len(bytes)
                   /\ (bytes[byteIndex + 1] \div Pow2(bitIndex)) % 2 = 1

calculateLatencyScore(rtt) ==
    IF rtt < 50 THEN 30
    ELSE IF rtt < 100 THEN 20
    ELSE IF rtt < 200 THEN 10
    ELSE 5

\* scorePeer; every number of the result is the code's number times MIB
scorePeer(peer, neededChunks, requesterRegion) ==
    LET hasNeeded == hasNeededChunks(peer.chunkBitfield, neededChunks)
        neededScore == IF hasNeeded THEN 100 ELSE 0
        regionScore ==
            IF requesterRegion # EMPTY /\ peer.region = requesterRegion THEN 30
            ELSE IF peer.region # EMPTY THEN 10
            ELSE 0
        latencyScore ==
            calculateLatencyScore(IF peer.rttHint = NoRtt \/ peer.rttHint = 0
                                  THEN 999 ELSE peer.rttHint)
        capacityScore == Min(peer.upCap, 20 * MIB)
        completionScore == IF peer.isComplete THEN 20 ELSE 0
    IN [peerId |-> peer.peerId,
        score |-> (neededScore + regionScore + latencyScore + completionScore) * MIB
                  + capacityScore,
        factors |-> [hasNeeded |-> neededScore * MIB, region |-> regionScore * MIB,
                     latency |-> latencyScore * MIB, capacity |-> capacityScore,
                     completion |-> completionScore * MIB],
        hasNeeded |-> hasNeeded]

\* Array.prototype.sort with (a, b) => b.score - a.score: stable, highest first
RECURSIVE InsertByScore(_, _)
InsertByScore(sorted, x) ==
    IF sorted = << >> THEN <<x>>
    ELSE IF Head(sorted).score >= x.score
         THEN <<Head(sorted)>> \o InsertByScore(Tail(sorted), x)
    ELSE <<x>> \o sorted

RECURSIVE sortPeersByScore(_)
sortPeersByScore(scores) ==
    IF scores = << >> THEN << >>
    ELSE InsertByScore(sortPeersByScore(SubSeq(scores, 1, Len(scores) - 1)),
                       scores[Len(scores)])

-----------------------------------------------------------------------------
(* redis.ts: key patterns *)

PEER_PREFIX == <<"p", "e", "e", "r", ":">>
PEERS_PREFIX == <<"p", "e", "e", "r", "s", ":">>

PEER_KEY(manifestId, peerId) == PEER_PREFIX \o manifestId \o <<COLON>> \o peerId
PEERS_SET_KEY(manifestId) == PEERS_PREFIX \o manifestId

\* s.split(':')
RECURSIVE Split(_)
Split(str) ==
    IF \E i \in 1..Len(str) : str[i] = COLON
    THEN LET i == CHOOSE i \in 1..Len(str) :
                      str[i] = COLON /\ \A j \in 1..(i - 1) : str[j] # COLON
         IN <<SubSeq(str, 1, i - 1)>> \o Split(SubSeq(str, i + 1, Len(str)))
    ELSE <<str>>

-----------------------------------------------------------------------------
(* routes/signaling.ts: the registry requests *)

Slots == 1..MaxSlots

NoBody ==
    [manifestId |-> EMPTY, neededChunks |-> << >>, region |-> EMPTY,
     excludePeers |-> << >>, missing |-> {}]

\* A request in flight.  manifestId, peerId: of the request; rec: the record
\* /complete is about to write; body: the body of /peers; order: the members
\* whose GET is still to run, in the order of the SMEMBERS reply; data: the
\* records fetched so far; prune: the members whose SREM is still to run;
\* answered: the response has been sent (a /peers request whose Promise.all
\* rejected goes on running the commands it has issued).
IdleReq ==
    [op |-> "", pc |-> "idle", manifestId |-> EMPTY, peerId |-> EMPTY, rec |-> NULL,
     body |-> NoBody, order |-> << >>, data |-> << >>, prune |-> << >>,
     answered |-> FALSE]

NoOut == [op |-> "", status |-> 0, req |-> IdleReq, peers |-> << >>, count |-> 0]

Response(op, status, r) == [NoOut EXCEPT !.op = op, !.status = status, !.req = r]

Includes(seq, x) == \E i \in 1..Len(seq) : seq[i] = x

\* const peerData: PeerData = { ... }
PeerData(b) ==
    [peerId |-> b.clientId, manifestId |-> b.manifestId,
     chunkBitfield |-> b.chunkBitfield, upCap |-> b.upCap, region |-> b.region,
     rttHint |-> b.rttHint, version |-> b.version, lastSeen |-> now,
     isComplete |-> FALSE]

\* slot s takes a request that goes on to the store
Starts(s) == req[s].pc = "idle" /\ nreq < MaxRequests /\ nreq' = nreq + 1

AnnounceInvalid(b) == b.clientId = EMPTY \/ b.manifestId = EMPTY \/ b.chunkBitfield = EMPTY

AnnounceBadRequest(s, b) ==
    /\ req[s].pc = "idle"
    /\ AnnounceInvalid(b)
    \* res.status(400): the request ends before any Redis command
    /\ UNCHANGED vars

AnnounceSetex(s, b) ==
    /\ Starts(s)
    /\ ~AnnounceInvalid(b)
    /\ kv' = Setex(kv, PEER_KEY(b.manifestId, b.clientId), PEER_TTL, PeerData(b))
    /\ req' = [req EXCEPT ![s] = [IdleReq EXCEPT !.op = "announce", !.pc = "sadd",
                                     !.manifestId = b.manifestId, !.peerId = b.clientId]]
    /\ out' = NoOut
    /\ UNCHANGED <<now, sets, faults, sweep, relayVars>>

AnnounceSetexFail(s, b) ==
    /\ Starts(s)
    /\ ~AnnounceInvalid(b)
    /\ faults < MaxFaults
    /\ faults' = faults + 1
    /\ out' = Response("announce", 500, IdleReq)
    /\ UNCHANGED <<now, kv, sets, req, sweep, relayVars>>

AnnounceSadd(s) ==
    /\ req[s].op = "announce" /\ req[s].pc = "sadd"
    /\ sets' = Sadd(sets, PEERS_SET_KEY(req[s].manifestId), req[s].peerId)
    /\ req' = [req EXCEPT ![s].pc = "ttl"]
    /\ out' = NoOut
    /\ UNCHANGED <<now, kv, faults, sweep, nreq, relayVars>>

\* const currentTTL = await redis.ttl(peersSetKey);
\* if (currentTTL === -1 || currentTTL < newTTL) ... else the response
AnnounceTtl(s) ==
    /\ req[s].op = "announce" /\ req[s].pc = "ttl"
    /\ LET currentTTL == Ttl(sets, PEERS_SET_KEY(req[s].manifestId))
       IN IF currentTTL = -1 \/ currentTTL < PEER_TTL
          THEN /\ req' = [req EXCEPT ![s].pc = "expire"]
               /\ out' = NoOut
          ELSE /\ req' = [req EXCEPT ![s] = IdleReq]
               /\ out' = Response("announce", 200, req[s])
    /\ UNCHANGED <<now, kv, sets, faults, sweep, nreq, relayVars>>

AnnounceExpire(s) ==
    /\ req[s].op = "announce" /\ req[s].pc = "expire"
    /\ sets' = Expire(sets, PEERS_SET_KEY(req[s].manifestId), PEER_TTL)
    /\ req' = [req EXCEPT ![s] = IdleReq]
    /\ out' = Response("announce", 200, req[s])
    /\ UNCHANGED <<now, kv, faults, sweep, nreq, relayVars>>

\* SADD, TTL or EXPIRE throws
AnnounceFail(s) ==
    /\ req[s].op = "announce" /\ req[s].pc \in {"sadd", "ttl", "expire"}
    /\ faults < MaxFaults
    /\ faults' = faults + 1
    /\ req' = [req EXCEPT ![s] = IdleReq]
    /\ out' = Response("announce", 500, req[s])
    /\ UNCHANGED <<now, kv, sets, sweep, nreq, relayVars>>

-----------------------------------------------------------------------------
(* POST /peers *)

PeersInvalid(b) == b.manifestId = EMPTY \/ "neededChunks" \in b.missing

\* peersData.find(p => p.peerId === peerId)
Find(data, peerId) == data[CHOOSE i \in 1..Len(data) :
                               data[i].peerId = peerId
                               /\ \A j \in 1..(i - 1) : data[j].peerId # peerId]

\* scores, sortedScores, topPeers and peers of the handler
PeersResponse(data, b) ==
    LET scores == [i \in 1..Len(data) |-> scorePeer(data[i], b.neededChunks, b.region)]
        sortedScores == sortPeersByScore(scores)
        topPeers == SubSeq(sortedScores, 1, Min(Len(sortedScores), MAX_PEERS_RESPONSE))
    IN [i \in 1..Len(topPeers) |->
           LET peer == Find(data, topPeers[i].peerId)
           IN [peerId |-> peer.peerId, chunkBitfield |-> peer.chunkBitfield,
               region |-> peer.region, score |-> topPeers[i].score]]

\* (mutant) a handler that answers 404 when it has no peer to return
PeersAnswerNotFound(r) ==
    IF r.data = << >> THEN Response("peers", 404, r)
    ELSE [Response("peers", 200, r) EXCEPT !.peers = PeersResponse(r.data, r.body),
                                          !.count = Len(PeersResponse(r.data, r.body))]

PeersAnswer(r) ==
    [Response("peers", 200, r) EXCEPT !.peers = PeersResponse(r.data, r.body),
                                     !.count = Len(PeersResponse(r.data, r.body))]

\* after a command of /peers: the next GET, then the SREMs, then the response
\* (none when the request has answered already)
PeersContinue(s, r) ==
    IF r.order # << >> THEN req' = [req EXCEPT ![s] = [r EXCEPT !.pc = "get"]] /\ out' = NoOut
    ELSE IF r.prune # << >> THEN req' = [req EXCEPT ![s] = [r EXCEPT !.pc = "srem"]] /\ out' = NoOut
    ELSE /\ req' = [req EXCEPT ![s] = IdleReq]
         /\ out' = IF r.answered THEN NoOut ELSE PeersAnswer(r)

PeersBadRequest(s, b) ==
    /\ req[s].pc = "idle"
    /\ PeersInvalid(b)
    \* res.status(400): the request ends before any Redis command
    /\ UNCHANGED vars

\* SMEMBERS, the filter on excludePeers and the GETs issued for the rest
PeersSmembers(s, b, order) ==
    /\ Starts(s)
    /\ ~PeersInvalid(b)
    /\ order \in Orders({pid \in Smembers(sets, PEERS_SET_KEY(b.manifestId)) :
                            ~Includes(b.excludePeers, pid)})
    /\ PeersContinue(s, [IdleReq EXCEPT !.op = "peers", !.manifestId = b.manifestId,
                                        !.body = b, !.order = order])
    /\ UNCHANGED <<now, kv, sets, faults, sweep, relayVars>>

PeersSmembersFail(s, b) ==
    /\ Starts(s)
    /\ ~PeersInvalid(b)
    /\ faults < MaxFaults
    /\ faults' = faults + 1
    /\ out' = Response("peers", 500, IdleReq)
    /\ UNCHANGED <<now, kv, sets, req, sweep, relayVars>>

PeersGet(s) ==
    /\ req[s].op = "peers" /\ req[s].pc = "get"
    /\ LET peerId == Head(req[s].order)
           data == Get(kv, PEER_KEY(req[s].manifestId, peerId))
       IN PeersContinue(s, IF data # NULL
                           THEN [req[s] EXCEPT !.order = Tail(@), !.data = Append(@, data)]
                           ELSE [req[s] EXCEPT !.order = Tail(@), !.prune = Append(@, peerId)])
    /\ UNCHANGED <<now, kv, sets, faults, sweep, nreq, relayVars>>

PeersSrem(s) ==
    /\ req[s].op = "peers" /\ req[s].pc = "srem"
    /\ sets' = Srem(sets, PEERS_SET_KEY(req[s].manifestId), Head(req[s].prune))
    /\ PeersContinue(s, [req[s] EXCEPT !.prune = Tail(@)])
    /\ UNCHANGED <<now, kv, faults, sweep, nreq, relayVars>>

\* (mutant) a callback that catches the error of its command and returns null
PeersFailSwallowed(s) ==
    /\ req[s].op = "peers" /\ req[s].pc \in {"get", "srem"}
    /\ faults < MaxFaults
    /\ faults' = faults + 1
    /\ PeersContinue(s, IF req[s].pc = "get" THEN [req[s] EXCEPT !.order = Tail(@)]
                        ELSE [req[s] EXCEPT !.prune = Tail(@)])
    /\ UNCHANGED <<now, kv, sets, sweep, nreq, relayVars>>

\* a GET or an SREM throws: its promise rejects, Promise.all rejects and the
\* handler answers 500; the other promises go on
PeersFail(s) ==
    /\ req[s].op = "peers" /\ req[s].pc \in {"get", "srem"}
    /\ faults < MaxFaults
    /\ faults' = faults + 1
    /\ LET r == IF req[s].pc = "get"
                THEN [req[s] EXCEPT !.order = Tail(@), !.answered = TRUE]
                ELSE [req[s] EXCEPT !.prune = Tail(@), !.answered = TRUE]
       IN /\ req' = [req EXCEPT ![s] =
                        IF r.order # << >> THEN [r EXCEPT !.pc = "get"]
                        ELSE IF r.prune # << >> THEN [r EXCEPT !.pc = "srem"]
                        ELSE IdleReq]
          /\ out' = IF req[s].answered THEN NoOut ELSE Response("peers", 500, req[s])
    /\ UNCHANGED <<now, kv, sets, sweep, nreq, relayVars>>

-----------------------------------------------------------------------------
(* POST /complete *)

CompleteInvalid(b) == b.clientId = EMPTY \/ b.manifestId = EMPTY

CompleteBadRequest(s, b) ==
    /\ req[s].pc = "idle"
    /\ CompleteInvalid(b)
    \* res.status(400): the request ends before any Redis command
    /\ UNCHANGED vars

\* (mutant) a complete that does not refresh lastSeen
MarkCompleteStale(peerData) == [peerData EXCEPT !.isComplete = TRUE]

\* peerData.isComplete = true; peerData.lastSeen = Date.now()
MarkComplete(peerData) == [peerData EXCEPT !.isComplete = TRUE, !.lastSeen = now]

\* GET: 404 when the key is missing, else the record to write
CompleteGet(s, b) ==
    /\ Starts(s)
    /\ ~CompleteInvalid(b)
    /\ LET data == Get(kv, PEER_KEY(b.manifestId, b.clientId))
           r == [IdleReq EXCEPT !.op = "complete", !.manifestId = b.manifestId,
                                !.peerId = b.clientId]
       IN IF data = NULL
          THEN /\ out' = Response("complete", 404, r)
               /\ UNCHANGED req
          ELSE /\ req' = [req EXCEPT ![s] = [r EXCEPT !.pc = "setex",
                                                      !.rec = MarkComplete(data)]]
               /\ out' = NoOut
    /\ UNCHANGED <<now, kv, sets, faults, sweep, relayVars>>

CompleteGetFail(s, b) ==
    /\ Starts(s)
    /\ ~CompleteInvalid(b)
    /\ faults < MaxFaults
    /\ faults' = faults + 1
    /\ out' = Response("complete", 500, IdleReq)
    /\ UNCHANGED <<now, kv, sets, req, sweep, relayVars>>

CompleteSetex(s) ==
    /\ req[s].op = "complete" /\ req[s].pc = "setex"
    /\ kv' = Setex(kv, PEER_KEY(req[s].manifestId, req[s].peerId), PEER_TTL, req[s].rec)
    /\ req' = [req EXCEPT ![s] = IdleReq]
    /\ out' = Response("complete", 200, req[s])
    /\ UNCHANGED <<now, sets, faults, sweep, nreq, relayVars>>

CompleteSetexFail(s) ==
    /\ req[s].op = "complete" /\ req[s].pc = "setex"
    /\ faults < MaxFaults
    /\ faults' = faults + 1
    /\ req' = [req EXCEPT ![s] = IdleReq]
    /\ out' = Response("complete", 500, req[s])
    /\ UNCHANGED <<now, kv, sets, sweep, nreq, relayVars>>

-----------------------------------------------------------------------------
(* redis.ts: cleanupExpiredPeers, run every 60 s *)

PEERS_PATTERN == PEERS_PREFIX \o <<"*">>

\* keys: the set keys still to visit (KEYS replies in no particular order);
\* setKey: the set being visited; members: its members still to check;
\* member: the member whose SREM is to run
IdleSweep == [pc |-> "idle", keys |-> {}, setKey |-> EMPTY, members |-> {}, member |-> EMPTY]

\* the next member of the inner loop, else the next key of the outer loop,
\* else the end of the run
SweepContinue(w) ==
    IF w.members # {} THEN [w EXCEPT !.pc = "exists", !.member = EMPTY]
    ELSE IF w.keys # {} THEN [w EXCEPT !.pc = "smembers", !.setKey = EMPTY, !.member = EMPTY]
    ELSE IdleSweep

SweepKeys ==
    /\ sweep.pc = "idle"
    /\ nreq < MaxRequests
    /\ nreq' = nreq + 1
    /\ sweep' = SweepContinue([IdleSweep EXCEPT !.keys = Keys(sets, PEERS_PATTERN)])
    /\ out' = NoOut
    /\ UNCHANGED <<now, kv, sets, faults, req, relayVars>>

SweepSmembers(setKey) ==
    /\ sweep.pc = "smembers"
    /\ setKey \in sweep.keys
    /\ sweep' = SweepContinue([sweep EXCEPT !.keys = @ \ {setKey}, !.setKey = setKey,
                                            !.members = Smembers(sets, setKey)])
    /\ out' = NoOut
    /\ UNCHANGED <<now, kv, sets, faults, req, nreq, relayVars>>

\* const manifestId = setKey.split(':')[1]
SweepManifestId(setKey) == Split(setKey)[2]

SweepExists(peerId) ==
    /\ sweep.pc = "exists"
    /\ peerId \in sweep.members
    /\ sweep' = IF Exists(kv, PEER_KEY(SweepManifestId(sweep.setKey), peerId))
                THEN SweepContinue([sweep EXCEPT !.members = @ \ {peerId}])
                ELSE [sweep EXCEPT !.pc = "srem", !.member = peerId]
    /\ out' = NoOut
    /\ UNCHANGED <<now, kv, sets, faults, req, nreq, relayVars>>

SweepSrem ==
    /\ sweep.pc = "srem"
    /\ sets' = Srem(sets, sweep.setKey, sweep.member)
    /\ sweep' = SweepContinue([sweep EXCEPT !.members = @ \ {sweep.member}])
    /\ out' = NoOut
    /\ UNCHANGED <<now, kv, faults, req, nreq, relayVars>>

\* a command throws: catch (err) logs it and the run ends
SweepFail ==
    /\ faults < MaxFaults
    /\ faults' = faults + 1
    /\ sweep' = IdleSweep
    /\ out' = NoOut
    /\ UNCHANGED <<now, kv, sets, req, nreq, relayVars>>

-----------------------------------------------------------------------------
(* The registry: the three requests and the sweep over the shared store *)

RegistryTimes == {k * ((PEER_TTL * 1000) \div 2) : k \in 0..MaxTicks}

RegistryTick(t) ==
    /\ t \in RegistryTimes
    /\ t > now
    /\ now' = t
    /\ kv' = Purge(kv, t)
    /\ sets' = Purge(sets, t)
    /\ out' = NoOut
    /\ UNCHANGED <<faults, req, sweep, nreq, relayVars>>

M == <<"m">>
MA == <<"m", COLON, "a">>
PB == <<"b">>
PAB == <<"a", COLON, "b">>

\* the (manifestId, clientId) pairs of the requests
RegistryPairs == {<<M, PB>>, <<M, PAB>>, <<MA, PB>>}

\* what a client announces beside its identity
RegistryProfiles ==
    {[chunkBitfield |-> <<"0", "8">>, upCap |-> 0, region |-> EMPTY,
      rttHint |-> NoRtt, version |-> EMPTY],
     [chunkBitfield |-> <<"0", "0">>, upCap |-> 2 * MIB, region |-> <<"e", "u">>,
      rttHint |-> 40, version |-> <<"1">>]}

AnnounceBody(pair, f) ==
    [clientId |-> pair[2], manifestId |-> pair[1], chunkBitfield |-> f.chunkBitfield,
     upCap |-> f.upCap, region |-> f.region, rttHint |-> f.rttHint, version |-> f.version]

AnnounceBodies ==
    {AnnounceBody(pair, f) : pair \in RegistryPairs, f \in RegistryProfiles}
    \cup {[AnnounceBody(<<M, PB>>, f) EXCEPT !.chunkBitfield = EMPTY] : f \in RegistryProfiles}

CompleteBodies ==
    {[clientId |-> pair[2], manifestId |-> pair[1]] : pair \in RegistryPairs}
    \cup {[clientId |-> EMPTY, manifestId |-> M]}

PeersBodies ==
    {[NoBody EXCEPT !.manifestId = M, !.neededChunks = <<3>>, !.region = <<"e", "u">>],
     [NoBody EXCEPT !.manifestId = M, !.neededChunks = <<3>>, !.excludePeers = <<PB>>],
     [NoBody EXCEPT !.manifestId = MA, !.neededChunks = <<3>>],
     [NoBody EXCEPT !.manifestId = M, !.missing = {"neededChunks"}]}

InitRegistry ==
    /\ now = 0
    /\ kv = << >>
    /\ sets = << >>
    /\ faults = 0
    /\ nreq = 0
    /\ req = [s \in Slots |-> IdleReq]
    /\ sweep = IdleSweep
    /\ out = NoOut
    /\ nsig = 0
    /\ nto = [c \in {} |-> 0]
    /\ poll = << >>

NextRegistry ==
    \/ \E s \in Slots, b \in AnnounceBodies :
           \/ AnnounceBadRequest(s, b)
           \/ AnnounceSetex(s, b)
           \/ AnnounceSetexFail(s, b)
    \/ \E s \in Slots :
           \/ AnnounceSadd(s)
           \/ AnnounceTtl(s)
           \/ AnnounceExpire(s)
           \/ AnnounceFail(s)
    \/ \E s \in Slots, b \in PeersBodies :
           \/ PeersBadRequest(s, b)
           \/ \E order \in Orders({pid \in Smembers(sets, PEERS_SET_KEY(b.manifestId)) :
                                      ~Includes(b.excludePeers, pid)}) :
                  PeersSmembers(s, b, order)
           \/ PeersSmembersFail(s, b)
    \/ \E s \in Slots :
           \/ PeersGet(s)
           \/ PeersSrem(s)
           \/ PeersFail(s)
    \/ \E s \in Slots, b \in CompleteBodies :
           \/ CompleteBadRequest(s, b)
           \/ CompleteGet(s, b)
           \/ CompleteGetFail(s, b)
    \/ \E s \in Slots :
           \/ CompleteSetex(s)
           \/ CompleteSetexFail(s)
    \/ SweepKeys
    \/ \E setKey \in sweep.keys : SweepSmembers(setKey)
    \/ \E peerId \in sweep.members : SweepExists(peerId)
    \/ SweepSrem
    \/ sweep.pc # "idle" /\ SweepFail
    \/ \E t \in RegistryTimes : RegistryTick(t)

SpecRegistry == InitRegistry /\ [][NextRegistry]_vars

-----------------------------------------------------------------------------
(* Properties of the registry *)

\* the record stored for the pair (manifestId, peerId), told by its own fields
HasRecord(manifestId, peerId) ==
    /\ Live(kv, PEER_KEY(manifestId, peerId))
    /\ kv[PEER_KEY(manifestId, peerId)].val.manifestId = manifestId
    /\ kv[PEER_KEY(manifestId, peerId)].val.peerId = peerId

IsMember(manifestId, peerId) == peerId \in Smembers(sets, PEERS_SET_KEY(manifestId))

Quiescent == sweep.pc = "idle" /\ \A s \in Slots : req[s].pc = "idle"

\* C1 (for the states in which no request and no sweep is in flight and no
\* Redis command has thrown): every peer with a live record for a manifest
\* is a member of the manifest's membership set.
C1_LivePeerIsMember ==
    (Quiescent /\ faults = 0) =>
        \A pair \in RegistryPairs :
            HasRecord(pair[1], pair[2]) => IsMember(pair[1], pair[2])

\* C6: the peer list of a /peers response has at most MAX_PEERS_RESPONSE
\* entries, is ordered by non-increasing score, holds no peerId of
\* excludePeers and no peerId twice, and count is its length.
C6_PeersResponseShape ==
    (out.op = "peers" /\ out.status = 200) =>
        /\ Len(out.peers) <= MAX_PEERS_RESPONSE
        /\ \A i, j \in 1..Len(out.peers) : i < j => out.peers[i].score >= out.peers[j].score
        /\ \A i \in 1..Len(out.peers) : ~Includes(out.req.body.excludePeers, out.peers[i].peerId)
        /\ \A i, j \in 1..Len(out.peers) : out.peers[i].peerId = out.peers[j].peerId => i = j
        /\ out.count = Len(out.peers)

\* what C7 says of one step of the /peers request in slot s
C7_Step(s) ==
    LET r == IF req[s].op = "peers" THEN req[s] ELSE req'[s]
        setKey == PEERS_SET_KEY(r.manifestId)
        after == IF req'[s].pc = "idle" THEN out'.req ELSE req'[s]
    IN \* records, and the memberships of other manifests, are unchanged
       /\ kv' = kv
       /\ \A k \in DOMAIN sets \ {setKey} : k \in DOMAIN sets' /\ sets'[k] = sets[k]
       /\ DOMAIN sets' \subseteq DOMAIN sets
       \* excluded members are not read and are left in the set
       /\ \A i \in 1..Len(req'[s].order) : ~Includes(r.body.excludePeers, req'[s].order[i])
       /\ \A pid \in Smembers(sets, setKey) :
              Includes(r.body.excludePeers, pid) => pid \in Smembers(sets', setKey)
       \* a GET returns a record only while it has not expired; a member whose
       \* record is missing is queued for removal and is left out of the result
       /\ (req[s].pc = "get" /\ faults' = faults) =>
              LET pid == Head(req[s].order)
                  key == PEER_KEY(r.manifestId, pid)
              IN IF key \in DOMAIN kv /\ kv[key].exp > now
                 THEN req[s].answered \/ after.data = Append(req[s].data, kv[key].val)
                 ELSE /\ req'[s].pc \in {"get", "srem"}
                      /\ req'[s].prune = Append(req[s].prune, pid)
                      /\ req'[s].data = req[s].data
       \* the removal takes the member out of the manifest's set
       /\ (req[s].pc = "srem" /\ faults' = faults) =>
              Head(req[s].prune) \notin Smembers(sets', setKey)

\* C7: a /peers request returns no expired record, removes from the
\* manifest's membership set each member it reads whose record is missing,
\* neither reads nor removes the members the request excludes, and leaves
\* the records and the membership sets of other manifests unchanged.
C7_PeersPrunesAndFrames ==
    [][/\ \A s \in Slots :
              (req'[s] # req[s] /\ (req[s].op = "peers" \/ req'[s].op = "peers"))
              => C7_Step(s)
       /\ (out'.op = "peers" /\ \A s \in Slots : req'[s] = req[s])
              => (kv' = kv /\ sets' = sets)]_vars

\* C7, witness: a /peers request has fetched a live record, has found the
\* record of another member missing and is about to remove that member.
C7_PruningReached ==
    \E s \in Slots :
        /\ req[s].op = "peers" /\ req[s].pc = "srem"
        /\ req[s].data # << >>
        /\ Head(req[s].prune) \in Smembers(sets, PEERS_SET_KEY(req[s].manifestId))

\* C8: a /complete whose GET finds no record answers 404 and changes neither
\* a record nor a membership set; one whose GET finds a record writes that
\* record back with isComplete = true and lastSeen = now, every other field
\* as read, under the presence TTL, and changes nothing else.
C8_CompleteContract ==
    [][/\ (out'.op = "complete" /\ out'.status = 404) =>
              /\ kv' = kv /\ sets' = sets /\ req' = req
              /\ PEER_KEY(out'.req.manifestId, out'.req.peerId) \notin DOMAIN kv
       /\ \A s \in Slots :
              (req[s].pc = "idle" /\ req'[s].op = "complete") =>
                  LET key == PEER_KEY(req'[s].manifestId, req'[s].peerId)
                  IN /\ key \in DOMAIN kv
                     /\ kv' = kv /\ sets' = sets
                     /\ req'[s].rec = [kv[key].val EXCEPT !.isComplete = TRUE,
                                                         !.lastSeen = now]
       /\ \A s \in Slots :
              (req[s].op = "complete" /\ req[s].pc = "setex"
               /\ req'[s] # req[s] /\ faults' = faults) =>
                  LET key == PEER_KEY(req[s].manifestId, req[s].peerId)
                  IN /\ out'.op = "complete" /\ out'.status = 200
                     /\ sets' = sets
                     /\ DOMAIN kv' = DOMAIN kv \cup {key}
                     /\ kv'[key] = [val |-> req[s].rec, exp |-> now + PEER_TTL * 1000]
                     /\ \A k \in DOMAIN kv \ {key} : kv'[k] = kv[k]]_vars

\* C8, witness: a /complete has answered 200 at a later time than the
\* announce, and the record holds isComplete = true, the refreshed lastSeen
\* and the announced bitfield.
C8_CompletedReached ==
    /\ out.op = "complete" /\ out.status = 200 /\ now > 0
    /\ LET key == PEER_KEY(out.req.manifestId, out.req.peerId)
       IN /\ key \in DOMAIN kv
          /\ kv[key].val.isComplete
          /\ kv[key].val.lastSeen = now
          /\ kv[key].val.chunkBitfield = <<"0", "8">>
          /\ kv[key].exp = now + PEER_TTL * 1000

\* C15: a /peers request for manifest m that needs chunk 3 and does not
\* exclude b, and that starts while b has a live record for m whose bitfield
\* 08 holds chunk 3, reads the record of b, and when it answers at once its
\* peer list holds b with a score of at least 100.  (Stated for the requests
\* that start when no other request and no cleanup is in flight, in
\* behaviours where no Redis command has thrown, and for a record that was
\* written in the millisecond of its lastSeen.)
C15_AnnouncedPeerIsReturned ==
    [][\A s \in Slots :
          LET r == IF out'.op = "peers" THEN out'.req ELSE req'[s]
          IN ( /\ Quiescent /\ faults' = 0
               /\ nreq' = nreq + 1
               /\ r.op = "peers"
               /\ \A t \in Slots \ {s} : req'[t] = req[t]
               /\ r.manifestId = M
               /\ r.body.neededChunks = <<3>>
               /\ ~Includes(r.body.excludePeers, PB)
               /\ HasRecord(M, PB)
               /\ kv[PEER_KEY(M, PB)].val.chunkBitfield = <<"0", "8">>
               /\ kv[PEER_KEY(M, PB)].exp
                  = kv[PEER_KEY(M, PB)].val.lastSeen + PEER_TTL * 1000 )
             => IF out'.op = "peers"
                THEN \E n \in 1..Len(out'.peers) :
                         out'.peers[n].peerId = PB /\ out'.peers[n].score >= 100 * MIB
                ELSE Includes(r.order, PB)]_vars

\* C9: when an announce answers 200, the manifest's membership set exists
\* and expires a presence TTL from now (its expiry before the announce is
\* never more than that).
C9_AnnounceExtendsSetExpiry ==
    [][(out'.op = "announce" /\ out'.status = 200) =>
          LET setKey == PEERS_SET_KEY(out'.req.manifestId)
          IN /\ setKey \in DOMAIN sets'
             /\ sets'[setKey].exp = now + PEER_TTL * 1000]_vars

\* C10: an announce for a pair whose record is live keeps the record's
\* peerId and manifestId and changes nothing but lastSeen, the announced
\* fields and the expiry: isComplete and every other key stay as they were.
C10_ReannounceRefreshesOnly ==
    [][\A s \in Slots :
          (req[s].pc = "idle" /\ req'[s].op = "announce"
           /\ HasRecord(req'[s].manifestId, req'[s].peerId)) =>
              LET key == PEER_KEY(req'[s].manifestId, req'[s].peerId)
              IN /\ kv'[key].val.peerId = kv[key].val.peerId
                 /\ kv'[key].val.manifestId = kv[key].val.manifestId
                 /\ kv'[key].val.isComplete = kv[key].val.isComplete
                 /\ \A k \in DOMAIN kv \ {key} : k \in DOMAIN kv' /\ kv'[k] = kv[k]]_vars

\* C19: while the record of a pair stays live, its isComplete, once true,
\* stays true, whatever request writes the record.
C19_CompleteStaysTrue ==
    [][\A key \in DOMAIN kv \cap DOMAIN kv' :
          ( /\ kv[key].val.isComplete
            /\ kv'[key].val.peerId = kv[key].val.peerId
            /\ kv'[key].val.manifestId = kv[key].val.manifestId )
          => kv'[key].val.isComplete]_vars

\* C20: the record that a successful complete writes for a pair has the
\* chunkBitfield, upCap, region and rttHint that the pair's record had when
\* the write ran, so those that an announce stored since complete read the
\* record (no Redis command has thrown).
C20_CompleteKeepsNewerAnnounce ==
    [][(out'.op = "complete" /\ out'.status = 200 /\ faults' = 0
        /\ HasRecord(out'.req.manifestId, out'.req.peerId)) =>
           LET key == PEER_KEY(out'.req.manifestId, out'.req.peerId)
           IN /\ kv'[key].val.chunkBitfield = kv[key].val.chunkBitfield
              /\ kv'[key].val.upCap = kv[key].val.upCap
              /\ kv'[key].val.region = kv[key].val.region
              /\ kv'[key].val.rttHint = kv[key].val.rttHint]_vars

\* the manifest whose membership set has the key setKey
ManifestOf(setKey) == SubSeq(setKey, Len(PEERS_PREFIX) + 1, Len(setKey))

\* C22, its clause on the requests: a write to a live record leaves it the
\* record of the pair it was the record of.
C22_RecordKeepsItsPair ==
    \A key \in DOMAIN kv \cap DOMAIN kv' :
        /\ kv'[key].val.manifestId = kv[key].val.manifestId
        /\ kv'[key].val.peerId = kv[key].val.peerId

\* C22, its clause on the sweep: when the sweep decides to remove a member
\* from a manifest's membership set, no record is stored under the key of
\* that manifest and that member.
C22_SweepChecksOwnRecord ==
    (sweep.pc = "exists" /\ sweep'.pc = "srem") =>
        ~Live(kv, PEER_KEY(ManifestOf(sweep.setKey), sweep'.member))

\* C22: an announce or a complete for one pair never overwrites the record
\* of another pair, and cleanupExpiredPeers removes a peerId from a
\* manifest's membership set only if that manifest's record for that peer
\* is absent when it is checked.
C22_PairsHaveOwnRecords ==
    [][C22_RecordKeepsItsPair /\ C22_SweepChecksOwnRecord]_vars

\* the success result {peers: [], count: 0} of the /peers request r
EmptyPeers(r) == [op |-> "peers", status |-> 200, req |-> r, peers |-> << >>, count |-> 0]

\* C11: a /peers request in which no Redis command throws answers the
\* success result {peers: [], count: 0} when the manifest's membership set is
\* empty or missing, when every member is excluded, and when the GET of
\* every member that is not excluded returns null.
C11_EmptyResultIsSuccess ==
    [][\A s \in Slots :
          \* no member, or none that is not excluded: the SMEMBERS step answers
          /\ (req[s].pc = "idle" /\ nreq' = nreq + 1 /\ faults' = faults
              /\ req' = req /\ out'.op = "peers") =>
                 /\ {pid \in Smembers(sets, PEERS_SET_KEY(out'.req.manifestId)) :
                        ~Includes(out'.req.body.excludePeers, pid)} = {}
                 /\ out' = EmptyPeers(out'.req)
          \* the last command of a request that has fetched no record
          /\ (req[s].op = "peers" /\ req'[s].pc = "idle" /\ faults' = faults
              /\ ~req[s].answered /\ req[s].data = << >>
              /\ (req[s].pc = "get" =>
                     PEER_KEY(req[s].manifestId, Head(req[s].order)) \notin DOMAIN kv)) =>
                 out' = EmptyPeers(out'.req)]_vars

\* C11, witness: a /peers request for m that excludes b has answered
\* {peers: [], count: 0} while b, whose record is live, is the only member.
C11_EmptyWhenAllExcluded ==
    /\ out.op = "peers" /\ out.status = 200
    /\ out.peers = << >> /\ out.count = 0
    /\ out.req.manifestId = M /\ out.req.body.excludePeers = <<PB>>
    /\ Smembers(sets, PEERS_SET_KEY(M)) = {PB}
    /\ PEER_KEY(M, PB) \in DOMAIN kv

-----------------------------------------------------------------------------
(* The scorer at work: /peers requests over a store that holds the records *)
(* of two peers of manifest m, announced (and completed) at time 0         *)

MaxChunk == 17           \* the chunk indices of the properties are 0..MaxChunk
MaxScorerRequests == 1   \* /peers requests in one behaviour

ScorerBitfields ==
    {<<"0", "8">>, <<"0", "0">>, <<"0", "1", "8", "0">>, <<"F", "f">>, <<"8">>}
ScorerRtts == {NoRtt, 0, 49, 50, 99, 100, 199, 200}
ScorerUpCaps == {0, MIB \div 2, 30 * MIB}
ScorerRegions == {EMPTY, <<"e", "u">>, <<"u", "s">>}

\* what announce and complete can have stored for one peer
ScorerProfiles ==
    [chunkBitfield : ScorerBitfields, upCap : ScorerUpCaps, region : ScorerRegions,
     rttHint : ScorerRtts, isComplete : BOOLEAN]

\* the least attractive peer that holds chunk 3 and the most attractive one
\* that holds no chunk
ScorerContrasts ==
    {[chunkBitfield |-> <<"0", "8">>, upCap |-> 0, region |-> EMPTY,
      rttHint |-> NoRtt, isComplete |-> FALSE],
     [chunkBitfield |-> <<"0", "0">>, upCap |-> 30 * MIB, region |-> <<"e", "u">>,
      rttHint |-> 40, isComplete |-> TRUE]}

\* more peers of one manifest than a response returns: b is the least
\* attractive peer that holds chunk 3, the others are the most attractive
\* peers that hold no chunk
ScorerCrowd == {PB, PAB} \cup {<<"c", d>> : d \in {"1", "2", "3", "4", "5"}}

CrowdProfile(peerId) ==
    CHOOSE f \in ScorerContrasts : (f.chunkBitfield = <<"0", "8">>) <=> (peerId = PB)

ScorerRecord(peerId, f) ==
    [val |-> [peerId |-> peerId, manifestId |-> M, chunkBitfield |-> f.chunkBitfield,
              upCap |-> f.upCap, region |-> f.region, rttHint |-> f.rttHint,
              version |-> EMPTY, lastSeen |-> 0, isComplete |-> f.isComplete],
     exp |-> PEER_TTL * 1000]

ScorerBodies ==
    {[NoBody EXCEPT !.manifestId = M, !.neededChunks = <<3>>, !.region = <<"e", "u">>],
     [NoBody EXCEPT !.manifestId = M, !.neededChunks = <<16, 15>>]}

InitScorer ==
    /\ now = 0
    /\ \/ /\ \E f \in ScorerProfiles :
             \E g \in ScorerContrasts \cup {[f EXCEPT !.rttHint = r] : r \in ScorerRtts} :
                 kv = (PEER_KEY(M, PB) :> ScorerRecord(PB, f))
                      @@ (PEER_KEY(M, PAB) :> ScorerRecord(PAB, g))
          /\ sets = (PEERS_SET_KEY(M) :> [val |-> {PB, PAB}, exp |-> PEER_TTL * 1000])
       \/ /\ kv = [k \in {PEER_KEY(M, pid) : pid \in ScorerCrowd} |->
                       LET pid == CHOOSE c \in ScorerCrowd : PEER_KEY(M, c) = k
                       IN ScorerRecord(pid, CrowdProfile(pid))]
          /\ sets = (PEERS_SET_KEY(M) :> [val |-> ScorerCrowd, exp |-> PEER_TTL * 1000])
    /\ faults = 0
    /\ nreq = 0
    /\ req = [s \in Slots |-> IdleReq]
    /\ sweep = IdleSweep
    /\ out = NoOut
    /\ nsig = 0
    /\ nto = [c \in {} |-> 0]
    /\ poll = << >>

NextScorer ==
    \/ /\ nreq < MaxScorerRequests
       /\ \E b \in ScorerBodies :
          \E order \in Orders({pid \in Smembers(sets, PEERS_SET_KEY(b.manifestId)) :
                                  ~Includes(b.excludePeers, pid)}) :
              PeersSmembers(1, b, order)
    \/ PeersGet(1)

SpecScorer == InitScorer /\ [][NextScorer]_vars

-----------------------------------------------------------------------------
(* Properties of the scorer *)

\* the bits, counted from the least significant one, that a hex digit sets in
\* its half of a byte
NibbleBits(c) ==
    CASE c = "0" -> {}
      [] c = "1" -> {0}
      [] c = "2" -> {1}
      [] c = "3" -> {0, 1}
      [] c = "4" -> {2}
      [] c = "5" -> {0, 2}
      [] c = "6" -> {1, 2}
      [] c = "7" -> {0, 1, 2}
      [] c = "8" -> {3}
      [] c = "9" -> {0, 3}
      [] c \in {"a", "A"} -> {1, 3}
      [] c \in {"b", "B"} -> {0, 1, 3}
      [] c \in {"c", "C"} -> {2, 3}
      [] c \in {"d", "D"} -> {0, 2, 3}
      [] c \in {"e", "E"} -> {1, 2, 3}
      [] c \in {"f", "F"} -> {0, 1, 2, 3}

\* byte floor(c / 8) exists in the hex string b and its bit c mod 8, counted
\* from the least significant bit, is set: the second digit of a byte holds
\* the bits 0..3, the first one the bits 4..7
HoldsChunk(b, c) ==
    /\ 2 * (c \div 8) + 2 <= Len(b)
    /\ IF c % 8 < 4 THEN (c % 8) \in NibbleBits(b[2 * (c \div 8) + 2])
       ELSE (c % 8) - 4 \in NibbleBits(b[2 * (c \div 8) + 1])

\* the lists of needed chunks of the properties, beside those of one chunk
NeededLists == {<< >>} \cup {<<c, d>> : c \in {0, 15}, d \in {3, 16}}

\* C13: for the bitfield b of every record that a /peers request has scored
\* and every chunk index c, hasNeededChunks(b, [c]) is true iff byte
\* floor(c / 8) exists in b and its bit c mod 8, counted from the least
\* significant bit, is set; it is false when floor(c / 8) is at or beyond the
\* length of b; and for a list of chunks it is true iff it is true for one
\* chunk of the list.
C13_HasNeededIsBitTest ==
    \A n \in 1..Len(out.req.data) :
        LET b == out.req.data[n].chunkBitfield
        IN /\ \A c \in 0..MaxChunk : hasNeededChunks(b, <<c>>) <=> HoldsChunk(b, c)
           /\ \A c \in 0..MaxChunk : 2 * (c \div 8) >= Len(b) => ~hasNeededChunks(b, <<c>>)
           /\ \A l \in NeededLists :
                  hasNeededChunks(b, l)
                  <=> \E i \in 1..Len(l) : hasNeededChunks(b, <<l[i]>>)

\* C13, witness: a /peers request that needs the chunks 16 and 15 has scored
\* a peer with bitfield 0180, which holds chunk 15 (bit 7 of byte 1), with
\* the 100 points of the need match and a peer with bitfield 08 without them.
C13_NeedMatchScored ==
    /\ out.op = "peers" /\ out.status = 200
    /\ out.req.body.neededChunks = <<16, 15>>
    /\ Len(out.peers) = 2
    /\ out.peers[1].chunkBitfield = <<"0", "1", "8", "0">>
    /\ out.peers[1].score >= 100 * MIB
    /\ out.peers[2].chunkBitfield = <<"0", "8">>
    /\ out.peers[2].score < 100 * MIB

\* the score that the response in out gives to peerId
ScoreIn(peerId) ==
    out.peers[CHOOSE n \in 1..Len(out.peers) : out.peers[n].peerId = peerId].score

\* C14: when a /peers response lists two peers whose records differ in
\* nothing but rttHint (and peerId), with rttHint values r1 <= r2 that are
\* non-negative integers, the peer with r1 scores at least as much as the one
\* with r2; and a record without rttHint gets the 5 points of the worst band.
C14_ScoreMonotoneInRtt ==
    (out.op = "peers" /\ out.status = 200) =>
        \A i, j \in 1..Len(out.req.data) :
            LET a == out.req.data[i]
                b == out.req.data[j]
            IN /\ ( /\ a.rttHint >= 0 /\ b.rttHint >= 0 /\ a.rttHint <= b.rttHint
                    /\ [a EXCEPT !.rttHint = 0, !.peerId = EMPTY]
                       = [b EXCEPT !.rttHint = 0, !.peerId = EMPTY] )
                  => ScoreIn(a.peerId) >= ScoreIn(b.peerId)
               /\ a.rttHint = NoRtt =>
                      scorePeer(a, out.req.body.neededChunks, out.req.body.region).factors.latency
                      = 5 * MIB

\* the bitfield of the record a holds one of the chunks that the request
\* answered in out needs
HoldsNeeded(a) ==
    \E n \in 1..Len(out.req.body.neededChunks) :
        HoldsChunk(a.chunkBitfield, out.req.body.neededChunks[n])

\* the rank of peerId in the response in out, 0 when it is not returned
RankIn(peerId) ==
    IF \E n \in 1..Len(out.peers) : out.peers[n].peerId = peerId
    THEN CHOOSE n \in 1..Len(out.peers) : out.peers[n].peerId = peerId
    ELSE 0

\* C18: for every two records a and b that a /peers request has scored, a
\* holding one of the needed chunks and b holding none, the scorePeer result
\* of a has hasNeeded true, that of b has hasNeeded false and the score of a
\* is strictly greater; and when the response returns b it returns a too, at
\* an earlier rank.
C18_NeedDominatesScore ==
    (out.op = "peers" /\ out.status = 200) =>
        \A i, j \in 1..Len(out.req.data) :
            LET a == out.req.data[i]
                b == out.req.data[j]
                sa == scorePeer(a, out.req.body.neededChunks, out.req.body.region)
                sb == scorePeer(b, out.req.body.neededChunks, out.req.body.region)
            IN (HoldsNeeded(a) /\ ~HoldsNeeded(b)) =>
                   /\ sa.hasNeeded /\ ~sb.hasNeeded
                   /\ sa.score > sb.score
                   /\ RankIn(b.peerId) # 0 =>
                          /\ RankIn(a.peerId) # 0
                          /\ RankIn(a.peerId) < RankIn(b.peerId)
                          /\ out.peers[RankIn(a.peerId)].score > out.peers[RankIn(b.peerId)].score

\* C18, witness: of seven peers, six of which hold no needed chunk and score
\* 100 each, the response returns MAX_PEERS_RESPONSE; the one peer that holds
\* chunk 3 was fetched last, scores 105 and is returned first, and a peer
\* without the chunk is left out.
C18_NeedPeerKeptOnTruncation ==
    /\ out.op = "peers" /\ out.status = 200
    /\ Len(out.req.data) = MAX_PEERS_RESPONSE + 1
    /\ out.req.data[MAX_PEERS_RESPONSE + 1].peerId = PB
    /\ Len(out.peers) = MAX_PEERS_RESPONSE
    /\ out.peers[1].peerId = PB
    /\ out.peers[1].score = 105 * MIB
    /\ \A n \in 2..MAX_PEERS_RESPONSE : out.peers[n].score = 100 * MIB

-----------------------------------------------------------------------------
(* POST /signal *)

SIGNAL_PREFIX == <<"s", "i", "g", "n", "a", "l", ":">>
UNKNOWN == <<"u", "n", "k", "n", "o", "w", "n">>

\* (mutant) a list of signal types that lets an unknown type through
SignalTypesLoose == {"offer", "answer", "ice-candidate", "bogus"}

SignalTypes == {"offer", "answer", "ice-candidate"}

\* const from = req.user?.userId || req.user?.username || 'unknown'
\* (userId 0 and username "" stand for a missing or falsy field)
From(user) ==
    IF user.userId # 0 THEN Digits(user.userId)
    ELSE IF user.username # EMPTY THEN user.username
    ELSE UNKNOWN

\* `signal:${to}:${from}:${Date.now()}`
SignalKey(to, from, t) == SIGNAL_PREFIX \o to \o <<COLON>> \o from \o <<COLON>> \o Digits(t)

\* the stored signal; uid numbers the accepted signals and is not part of the
\* stored JSON: it tells two signals with equal fields apart
SignalMessage(type, from, to, data, uid) ==
    [type |-> type, from |-> from, to |-> to, data |-> data, timestamp |-> now, uid |-> uid]

\* the response of POST /signal, with the body it answers
SignalResponse(status, type, to, data) ==
    Response("signal", status,
             [IdleReq EXCEPT !.op = "signal", !.body = [type |-> type, to |-> to, data |-> data]])

\* the model sends signals while fewer than MaxSignals have been accepted
SignalMissing(user, type, to, data) ==
    /\ nsig < MaxSignals
    /\ type = "" \/ to = EMPTY
    /\ out' = SignalResponse(400, type, to, data)
    /\ UNCHANGED <<now, kv, faults, nsig, nto, poll, sets, nreq, req, sweep>>

SignalBadType(user, type, to, data) ==
    /\ ~(type = "" \/ to = EMPTY)
    /\ nsig < MaxSignals
    /\ type \notin SignalTypes
    /\ out' = SignalResponse(400, type, to, data)
    /\ UNCHANGED <<now, kv, faults, nsig, nto, poll, sets, nreq, req, sweep>>

SignalFail(user, type, to, data) ==
    /\ ~(type = "" \/ to = EMPTY)
    /\ type \in SignalTypes
    /\ nsig < MaxSignals
    /\ faults < MaxFaults
    /\ faults' = faults + 1
    /\ out' = SignalResponse(500, type, to, data)
    /\ UNCHANGED <<now, kv, nsig, nto, poll, sets, nreq, req, sweep>>

SignalStore(user, type, to, data) ==
    /\ ~(type = "" \/ to = EMPTY)
    /\ type \in SignalTypes
    /\ nsig < MaxSignals
    /\ kv' = Setex(kv, SignalKey(to, From(user), now), SIGNAL_TTL,
                   SignalMessage(type, From(user), to, data, nsig + 1))
    /\ nsig' = nsig + 1
    /\ nto' = [nto EXCEPT ![to] = @ + 1]
    /\ out' = SignalResponse(200, type, to, data)
    /\ UNCHANGED <<now, faults, poll, sets, nreq, req, sweep>>

-----------------------------------------------------------------------------
(* GET /signals/:clientId *)

Polls == 1..MaxPolls

\* `signal:${clientId}:*`
SignalPattern(clientId) == SIGNAL_PREFIX \o clientId \o <<COLON, "*">>

\* A poll request.  pending: the keys of the for loop not yet visited (KEYS
\* replies in no particular order); cur: the key being deleted; signals: the
\* array collected so far; status: 0 until it has answered.  Kept for the
\* properties: deleted, the uids of the messages its DEL commands removed;
\* before, the polls that had answered when it arrived; mailbox, the pending
\* messages whose field to was its clientId when it arrived.
IdlePoll ==
    [pc |-> "idle", clientId |-> EMPTY, pending |-> {}, cur |-> EMPTY,
     signals |-> << >>, status |-> 0, deleted |-> {}, before |-> {}, mailbox |-> {}]

Answered(p) == poll[p].pc = "done"

\* res.json({ signals }) when the loop has no key left, else the next GET
PollContinue(r, rest) ==
    IF rest = {}
    THEN [r EXCEPT !.pc = "done", !.status = 200, !.pending = {}, !.cur = EMPTY]
    ELSE [r EXCEPT !.pc = "get", !.pending = rest, !.cur = EMPTY]

\* catch (err): res.status(500)
PollError(r) ==
    [r EXCEPT !.pc = "done", !.status = 500, !.pending = {}, !.cur = EMPTY]

\* the polls are numbered in the order they arrive
NextPoll(p) == poll[p].pc = "idle" /\ \A q \in Polls : q < p => poll[q].pc # "idle"

PollArrive(p, c) ==
    [IdlePoll EXCEPT !.clientId = c,
                     !.before = {q \in Polls : Answered(q)},
                     !.mailbox = {kv[k].val : k \in {x \in DOMAIN kv :
                                      Live(kv, x) /\ kv[x].val.to = c}}]

PollBadRequest(p, c) ==
    /\ NextPoll(p)
    /\ c = EMPTY
    /\ poll' = [poll EXCEPT ![p] = [PollArrive(p, c) EXCEPT !.pc = "done", !.status = 400]]
    /\ out' = NoOut
    /\ UNCHANGED <<now, kv, faults, nsig, nto, sets, nreq, req, sweep>>

PollKeys(p, c) ==
    /\ NextPoll(p)
    /\ c # EMPTY
    /\ poll' = [poll EXCEPT ![p] =
                   PollContinue(PollArrive(p, c), Keys(kv, SignalPattern(c)))]
    /\ out' = NoOut
    /\ UNCHANGED <<now, kv, faults, nsig, nto, sets, nreq, req, sweep>>

PollKeysFail(p, c) ==
    /\ NextPoll(p)
    /\ c # EMPTY
    /\ faults < MaxFaults
    /\ faults' = faults + 1
    /\ poll' = [poll EXCEPT ![p] = PollError(PollArrive(p, c))]
    /\ out' = NoOut
    /\ UNCHANGED <<now, kv, nsig, nto, sets, nreq, req, sweep>>

PollGet(p, k) ==
    /\ poll[p].pc = "get"
    /\ k \in poll[p].pending
    /\ poll' = [poll EXCEPT ![p] =
                   IF Get(kv, k) = NULL
                   THEN PollContinue(@, @.pending \ {k})
                   ELSE [@ EXCEPT !.pc = "del", !.cur = k,
                                  !.signals = Append(@, Get(kv, k))]]
    /\ out' = NoOut
    /\ UNCHANGED <<now, kv, faults, nsig, nto, sets, nreq, req, sweep>>

PollDel(p) ==
    /\ poll[p].pc = "del"
    /\ kv' = Del(kv, poll[p].cur)
    /\ poll' = [poll EXCEPT ![p] =
                   [PollContinue(@, @.pending \ {@.cur}) EXCEPT !.deleted =
                       IF Live(kv, poll[p].cur)
                       THEN @ \cup {kv[poll[p].cur].val.uid} ELSE @]]
    /\ out' = NoOut
    /\ UNCHANGED <<now, faults, nsig, nto, sets, nreq, req, sweep>>

\* GET or DEL throws inside the loop
PollLoopFail(p) ==
    /\ poll[p].pc \in {"get", "del"}
    /\ faults < MaxFaults
    /\ faults' = faults + 1
    /\ poll' = [poll EXCEPT ![p] = PollError(@)]
    /\ out' = NoOut
    /\ UNCHANGED <<now, kv, nsig, nto, sets, nreq, req, sweep>>

-----------------------------------------------------------------------------
(* Time and key expiry *)

RelayTimes == (0..MaxMs) \cup {e * SIGNAL_TTL * 1000 : e \in 1..MaxEpochs}

RelayTick(t) ==
    /\ t \in RelayTimes
    /\ t > now
    /\ now' = t
    /\ kv' = Purge(kv, t)
    /\ out' = NoOut
    /\ UNCHANGED <<faults, nsig, nto, poll, sets, nreq, req, sweep>>

-----------------------------------------------------------------------------
(* The relay: POST /signal and GET /signals/:clientId over the shared store *)

RelayUsers == {[userId |-> 7, username |-> <<"A">>], [userId |-> 0, username |-> <<"C">>]}
RelayClients == {<<"B">>, <<"B", COLON, "x">>}
NoData == "undefined"     \* a body without the field data
RelayData == {"P", NoData}

\* the bodies of POST /signal: the well-formed ones, and ones that lack a
\* field or carry an unknown type
RelayBodies ==
    [type : {"offer"}, to : RelayClients, data : RelayData]
    \cup {[type |-> "", to |-> <<"B">>, data |-> "P"],
          [type |-> "offer", to |-> EMPTY, data |-> "P"],
          [type |-> "bogus", to |-> <<"B">>, data |-> "P"]}

InitRelay ==
    /\ now = 0
    /\ kv = << >>
    /\ sets = << >>
    /\ faults = 0
    /\ nreq = 0
    /\ req = [s \in Slots |-> IdleReq]
    /\ sweep = IdleSweep
    /\ out = NoOut
    /\ nsig = 0
    /\ nto = [c \in RelayClients |-> 0]
    /\ poll = [p \in Polls |-> IdlePoll]

NextRelay ==
    \/ \E user \in RelayUsers, b \in RelayBodies :
           \/ SignalMissing(user, b.type, b.to, b.data)
           \/ SignalBadType(user, b.type, b.to, b.data)
           \/ SignalFail(user, b.type, b.to, b.data)
           \/ SignalStore(user, b.type, b.to, b.data)
    \/ \E p \in Polls, c \in RelayClients \cup {EMPTY} :
           \/ PollBadRequest(p, c)
           \/ PollKeys(p, c)
           \/ PollKeysFail(p, c)
    \/ \E p \in Polls : \E k \in poll[p].pending : PollGet(p, k)
    \/ \E p \in Polls : PollDel(p)
    \/ \E p \in Polls : PollLoopFail(p)
    \/ \E t \in RelayTimes : RelayTick(t)

SpecRelay == InitRelay /\ [][NextRelay]_vars

-----------------------------------------------------------------------------
(* The service: the registry and the relay.  Their keys (peer:, peers: and   *)
(* signal:) never meet, so a behaviour is one of the registry or one of the  *)
(* relay, the relay here with at most MaxServiceSignals signals.             *)

MaxServiceSignals == 1

InitService == InitRegistry \/ InitRelay

NextService ==
    \/ poll = << >> /\ NextRegistry
    \/ poll # << >> /\ NextRelay /\ nsig' <= MaxServiceSignals

SpecService == InitService /\ [][NextService]_vars

-----------------------------------------------------------------------------
(* Properties of the service *)

\* C12: a step in which a Redis command of a request throws sends the error
\* response of that request (or sends nothing, the request having answered
\* with an error already), and no request answers success in a step in which
\* its command throws or after one of its commands has thrown.  (The cleanup
\* run is no request: it logs the error.)
C12_FailureIsAnError ==
    [][/\ faults' = faults + 1 =>
              \/ sweep' # sweep
              \/ out'.status = 500
              \/ \E p \in DOMAIN poll : poll[p].status = 0 /\ poll'[p].status = 500
              \/ \E s \in Slots : req'[s] # req[s] /\ req[s].op = "peers" /\ req[s].answered
       /\ out'.status = 200 => faults' = faults
       /\ (out'.op = "peers" /\ out'.status = 200) => ~out'.req.answered
       /\ \A p \in DOMAIN poll :
              (poll[p].status = 0 /\ poll'[p].status = 200) => faults' = faults]_vars

\* C12, witness: a /peers request that had fetched a record has answered 500
\* because a later command threw.
C12_PartialListWithheld ==
    /\ faults = 1
    /\ out.op = "peers" /\ out.status = 500
    /\ out.req.data # << >>

-----------------------------------------------------------------------------
(* Properties of the relay *)

Ok(p) == poll[p].pc = "done" /\ poll[p].status = 200

\* the uids of the messages in the response of poll p
Returned(p) == {poll[p].signals[i].uid : i \in 1..Len(poll[p].signals)}

\* poll q arrived after poll p had answered
After(p, q) == p \in poll[q].before

\* C21: every message that a poll for clientId has collected for its
\* response, and every message that one of its DEL commands removes, has the
\* field to equal to clientId.
C21_PollTakesOwnMessagesOnly ==
    [][\A p \in Polls :
          /\ \A i \in 1..Len(poll'[p].signals) :
                 poll'[p].signals[i].to = poll'[p].clientId
          /\ (poll[p].pc = "del" /\ poll'[p] # poll[p] /\ faults' = faults) =>
                 \A k \in DOMAIN kv \ DOMAIN kv' : kv[k].val.to = poll[p].clientId]_vars

\* C16: a /signal request whose type is none of offer, answer and
\* ice-candidate is answered 400 and the stored signal messages are what they
\* were before it.
C16_UnknownTypeRejected ==
    [][(out'.op = "signal"
        /\ out'.req.body.type \notin {"offer", "answer", "ice-candidate"}) =>
           /\ out'.status = 400
           /\ kv' = kv
           /\ nsig' = nsig]_vars

\* C16, witness: a request of type bogus has been answered 400 while a
\* message is pending.
C16_BogusRejected ==
    /\ out.op = "signal" /\ out.status = 400
    /\ out.req.body.type = "bogus"
    /\ out.req.body.to # EMPTY
    /\ kv # << >>

\* C17 (its clause on the payload of a signal): a /signal request whose body
\* has no data is answered 400 and leaves the store unchanged, when no Redis
\* command throws.
C17_SignalWithoutPayloadRejected ==
    [][(out'.op = "signal" /\ out'.req.body.data = NoData /\ faults' = faults) =>
           /\ out'.status = 400
           /\ kv' = kv]_vars

\* C2: a signal that is accepted leaves every message that was pending where
\* it was: it is stored under a key of its own, so that the pending messages
\* are one more than before.
C2_EnqueueNeverOverwrites ==
    [][nsig' = nsig + 1 =>
          /\ \A k \in DOMAIN kv : Live(kv, k) => (k \in DOMAIN kv' /\ kv'[k] = kv[k])
          /\ Cardinality(DOMAIN kv') = Cardinality(DOMAIN Purge(kv, now)) + 1]_vars

\* C3: when the only signal ever addressed to B is an offer from A with
\* payload P, a poll for B that arrives while it is pending (the first poll
\* for B, answered before the 30 s window lapses) answers exactly that
\* message, and a poll for B that arrives after that poll has answered
\* answers the empty list.
C3_OfferThenPollThenEmpty ==
    \A p \in Polls : \A m \in poll[p].mailbox :
        ( /\ Ok(p)
          /\ poll[p].mailbox = {m}
          /\ nto[poll[p].clientId] = 1
          /\ m.type = "offer"
          /\ now < m.timestamp + SIGNAL_TTL * 1000
          /\ \A q \in Polls \ {p} :
                 poll[q].clientId = poll[p].clientId => After(p, q) )
        => /\ poll[p].signals = <<m>>
           /\ \A q \in Polls :
                 (Ok(q) /\ poll[q].clientId = poll[p].clientId /\ After(p, q))
                 => poll[q].signals = << >>

\* C4 (its clause on the error path): a poll that has answered with an error
\* has deleted no message.
C4_ErrorPollDeletedNothing ==
    \A p \in Polls :
        (poll[p].pc = "done" /\ poll[p].status = 500) => poll[p].deleted = {}

\* C5: two polls of which one arrived after the other had answered never
\* both return the same message.
C5_NoDuplicateWithoutOverlap ==
    \A p, q \in Polls :
        (p # q /\ Ok(p) /\ Ok(q) /\ (After(p, q) \/ After(q, p)))
        => Returned(p) \cap Returned(q) = {}

\* C5, reachability: two polls for the same recipient that overlapped have
\* both answered with the same message.
C5_DuplicateDelivered ==
    \E p, q \in Polls :
        /\ p # q /\ Ok(p) /\ Ok(q)
        /\ poll[p].clientId = poll[q].clientId
        /\ ~After(p, q) /\ ~After(q, p)
        /\ Returned(p) \cap Returned(q) # {}

====
